---- MODULE Spec2Model ----
(***************************************************************************)
(* The scrape-and-normalise pipeline of ua-energy-news-analytics.          *)
(*                                                                         *)
(* Python strings are sequences of characters.  An ASCII character is the  *)
(* one-character string holding it; a Cyrillic character is the string     *)
(* "uXXXX" holding its code point, so that the Ukrainian month names and   *)
(* the English ones they are replaced by never share a character.          *)
(***************************************************************************)
EXTENDS Integers, Sequences, FiniteSets, TLC

(***************************************************************************)
(* str: `in`, startswith, replace, join, comparison                        *)
(***************************************************************************)

\* s[i], or the empty string past either end
At(s, i) == IF i >= 1 /\ i <= Len(s) THEN s[i] ELSE ""

\* p occurs in s at position i
OccursAt(p, s, i) ==
  /\ i >= 1
  /\ i + Len(p) - 1 <= Len(s)
  /\ \A k \in 1..Len(p) : s[i + k - 1] = p[k]

\* str.find, 1-based; 0 when p does not occur
Find(p, s) ==
  IF \E i \in 1..(Len(s) + 1) : OccursAt(p, s, i)
  THEN CHOOSE i \in 1..(Len(s) + 1) :
         /\ OccursAt(p, s, i)
         /\ \A j \in 1..(i - 1) : ~OccursAt(p, s, j)
  ELSE 0

\* `p in s`
Contains(p, s) == Find(p, s) > 0

\* s.startswith(p)
StartsWith(s, p) == OccursAt(p, s, 1)

\* s[i:] (1-based i)
From(s, i) == IF i > Len(s) THEN <<>> ELSE SubSeq(s, i, Len(s))

RECURSIVE Replace(_, _, _)
\* s.replace(old, new): every non-overlapping occurrence, left to right
\* (old is never empty here)
Replace(s, old, new) ==
  LET i == Find(old, s) IN
  IF i = 0 THEN s
  ELSE SubSeq(s, 1, i - 1) \o new \o Replace(From(s, i + Len(old)), old, new)

RECURSIVE Join(_, _)
\* sep.join(parts)
Join(sep, parts) ==
  IF parts = <<>> THEN <<>>
  ELSE IF Len(parts) = 1 THEN parts[1]
  ELSE parts[1] \o sep \o Join(sep, Tail(parts))

Digits == <<"0", "1", "2", "3", "4", "5", "6", "7", "8", "9">>

IsDigit(c) == \E n \in 1..10 : Digits[n] = c

DigitVal(c) == (CHOOSE n \in 1..10 : Digits[n] = c) - 1

\* The order of the characters a timestamp in ISO format is made of, by code
\* point: '-' (45) < '0'..'9' (48..57) < ':' (58) < 'T' (84).
IsoAlphabet == <<"-", "0", "1", "2", "3", "4", "5", "6", "7", "8", "9", ":", "T">>

CodeRank(c) == CHOOSE n \in 1..Len(IsoAlphabet) : IsoAlphabet[n] = c

RECURSIVE StrLess(_, _)
\* a < b for Python strings: by code point, a proper prefix first
StrLess(a, b) ==
  IF b = <<>> THEN FALSE
  ELSE IF a = <<>> THEN TRUE
  ELSE IF a[1] = b[1] THEN StrLess(Tail(a), Tail(b))
  ELSE CodeRank(a[1]) < CodeRank(b[1])

\* "%02d" % n and "%04d" % n
Pad2(n) == <<Digits[((n \div 10) % 10) + 1], Digits[(n % 10) + 1]>>

Pad4(n) == Pad2(n \div 100) \o Pad2(n % 100)

(***************************************************************************)
(* The calendar                                                            *)
(***************************************************************************)

IsLeap(y) == (y % 4 = 0 /\ y % 100 # 0) \/ y % 400 = 0

DaysInMonth(y, m) ==
  IF m = 2 THEN (IF IsLeap(y) THEN 29 ELSE 28)
  ELSE IF m \in {4, 6, 9, 11} THEN 30
  ELSE 31

\* a calendar date is a record [year, month, day]
IsCalendarDate(y, m, d) ==
  /\ y >= 1 /\ y <= 9999
  /\ m >= 1 /\ m <= 12
  /\ d >= 1 /\ d <= DaysInMonth(y, m)

(***************************************************************************)
(* Metadata.standardise_date                                               *)
(***************************************************************************)

\* The month table, in the insertion order the loop iterates it in.
months ==
  <<[ua |-> <<"u0441", "u0456", "u0447", "u043d", "u044f">>,
     en |-> <<"J", "a", "n", "u", "a", "r", "y">>],
    [ua |-> <<"u043b", "u044e", "u0442", "u043e", "u0433", "u043e">>,
     en |-> <<"F", "e", "b", "r", "u", "a", "r", "y">>],
    [ua |-> <<"u0431", "u0435", "u0440", "u0435", "u0437", "u043d", "u044f">>,
     en |-> <<"M", "a", "r", "c", "h">>],
    [ua |-> <<"u043a", "u0432", "u0456", "u0442", "u043d", "u044f">>,
     en |-> <<"A", "p", "r", "i", "l">>],
    [ua |-> <<"u0442", "u0440", "u0430", "u0432", "u043d", "u044f">>,
     en |-> <<"M", "a", "y">>],
    [ua |-> <<"u0447", "u0435", "u0440", "u0432", "u043d", "u044f">>,
     en |-> <<"J", "u", "n", "e">>],
    [ua |-> <<"u043b", "u0438", "u043f", "u043d", "u044f">>,
     en |-> <<"J", "u", "l", "y">>],
    [ua |-> <<"u0441", "u0435", "u0440", "u043f", "u043d", "u044f">>,
     en |-> <<"A", "u", "g", "u", "s", "t">>],
    [ua |-> <<"u0432", "u0435", "u0440", "u0435", "u0441", "u043d", "u044f">>,
     en |-> <<"S", "e", "p", "t", "e", "m", "b", "e", "r">>],
    [ua |-> <<"u0436", "u043e", "u0432", "u0442", "u043d", "u044f">>,
     en |-> <<"O", "c", "t", "o", "b", "e", "r">>],
    [ua |-> <<"u043b", "u0438", "u0441", "u0442", "u043e", "u043f", "u0430", "u0434", "u0430">>,
     en |-> <<"N", "o", "v", "e", "m", "b", "e", "r">>],
    [ua |-> <<"u0433", "u0440", "u0443", "u0434", "u043d", "u044f">>,
     en |-> <<"D", "e", "c", "e", "m", "b", "e", "r">>]>>

\* What a call gives: a value, or the exception it raises.
Return(v) == [kind |-> "return", value |-> v]

Raise(type, msg) == [kind |-> "raise", type |-> type, msg |-> msg]

Whitespace == {" ", "\t", "\n"}

Upper == <<"A", "D", "F", "J", "M", "N", "O", "S">>

Lower == <<"a", "d", "f", "j", "m", "n", "o", "s">>

\* str.lower on the letters the English month names begin with
ToLower(c) ==
  IF \E n \in 1..Len(Upper) : Upper[n] = c
  THEN Lower[CHOOSE n \in 1..Len(Upper) : Upper[n] = c]
  ELSE c

LowerStr(s) == [k \in 1..Len(s) |-> ToLower(s[k])]

Match(v, next) == [ok |-> TRUE, val |-> v, next |-> next]

NoMatch == [ok |-> FALSE, val |-> 0, next |-> 0]

\* %d : 3[0-1]|[1-2]\d|0[1-9]|[1-9]| [1-9]
re_d(s, i) ==
  LET a == At(s, i)
      b == At(s, i + 1)
  IN  IF a = "3" /\ b \in {"0", "1"} THEN Match(30 + DigitVal(b), i + 2)
      ELSE IF a \in {"1", "2"} /\ IsDigit(b)
        THEN Match(10 * DigitVal(a) + DigitVal(b), i + 2)
      ELSE IF a = "0" /\ IsDigit(b) /\ b # "0" THEN Match(DigitVal(b), i + 2)
      ELSE IF IsDigit(a) /\ a # "0" THEN Match(DigitVal(a), i + 1)
      ELSE IF a = " " /\ IsDigit(b) /\ b # "0" THEN Match(DigitVal(b), i + 2)
      ELSE NoMatch

RECURSIVE SkipSpace(_, _)
SkipSpace(s, i) == IF At(s, i) \in Whitespace THEN SkipSpace(s, i + 1) ELSE i

\* \s+ : what a blank of the format matches
re_space(s, i) ==
  IF At(s, i) \in Whitespace THEN Match(0, SkipSpace(s, i)) ELSE NoMatch

\* %B : a full English month name, whatever its case
re_B(s, i) ==
  LET low == LowerStr(s)
      hit(m) == OccursAt(LowerStr(months[m].en), low, i)
  IN  IF \E m \in 1..Len(months) : hit(m)
      THEN LET m == CHOOSE m \in 1..Len(months) : hit(m)
           IN  Match(m, i + Len(months[m].en))
      ELSE NoMatch

\* %Y : \d\d\d\d
re_Y(s, i) ==
  IF \A k \in 0..3 : IsDigit(At(s, i + k))
  THEN Match(1000 * DigitVal(s[i]) + 100 * DigitVal(s[i + 1])
               + 10 * DigitVal(s[i + 2]) + DigitVal(s[i + 3]), i + 4)
  ELSE NoMatch

\* %H : 2[0-3]|[0-1]\d|\d
re_H(s, i) ==
  LET a == At(s, i)
      b == At(s, i + 1)
  IN  IF a = "2" /\ b \in {"0", "1", "2", "3"} THEN Match(20 + DigitVal(b), i + 2)
      ELSE IF a \in {"0", "1"} /\ IsDigit(b)
        THEN Match(10 * DigitVal(a) + DigitVal(b), i + 2)
      ELSE IF IsDigit(a) THEN Match(DigitVal(a), i + 1)
      ELSE NoMatch

\* %M : [0-5]\d|\d
re_M(s, i) ==
  LET a == At(s, i)
      b == At(s, i + 1)
  IN  IF a \in {"0", "1", "2", "3", "4", "5"} /\ IsDigit(b)
        THEN Match(10 * DigitVal(a) + DigitVal(b), i + 2)
      ELSE IF IsDigit(a) THEN Match(DigitVal(a), i + 1)
      ELSE NoMatch

\* a literal character of the format
re_lit(c, s, i) == IF At(s, i) = c THEN Match(0, i + 1) ELSE NoMatch

MSG_TIME_DATA ==
  <<"t", "i", "m", "e", " ", "d", "a", "t", "a", " ", "'">>

MSG_NOT_FORMAT ==
  <<"'", " ", "d", "o", "e", "s", " ", "n", "o", "t", " ", "m", "a", "t", "c",
    "h", " ", "f", "o", "r", "m", "a", "t", " ", "'", "%", "d", " ", "%", "B",
    " ", "%", "Y", ",", " ", "%", "H", ":", "%", "M", "'">>

MSG_UNCONVERTED ==
  <<"u", "n", "c", "o", "n", "v", "e", "r", "t", "e", "d", " ", "d", "a", "t",
    "a", " ", "r", "e", "m", "a", "i", "n", "s", ":", " ">>

MSG_DAY_RANGE ==
  <<"d", "a", "y", " ", "i", "s", " ", "o", "u", "t", " ", "o", "f", " ", "r",
    "a", "n", "g", "e">>

\* datetime.strptime(s, "%d %B %Y, %H:%M").  Every term of the format is
\* followed by one that cannot start where a shorter match of it would end, so
\* the regular expression's first match is the only one.  A term that does not
\* match leaves the place 0, where no later term matches.
strptime(s) ==
  LET d  == re_d(s, 1)
      s1 == re_space(s, d.next)
      B  == re_B(s, s1.next)
      s2 == re_space(s, B.next)
      Y  == re_Y(s, s2.next)
      c  == re_lit(",", s, Y.next)
      s3 == re_space(s, c.next)
      H  == re_H(s, s3.next)
      k  == re_lit(":", s, H.next)
      M  == re_M(s, k.next)
  IN  IF ~M.ok THEN Raise("ValueError", MSG_TIME_DATA \o s \o MSG_NOT_FORMAT)
      ELSE IF M.next # Len(s) + 1
        THEN Raise("ValueError", MSG_UNCONVERTED \o From(s, M.next))
      ELSE IF ~IsCalendarDate(Y.val, B.val, d.val)
        THEN Raise("ValueError", MSG_DAY_RANGE)
      ELSE Return([year |-> Y.val, month |-> B.val, day |-> d.val,
                   hour |-> H.val, minute |-> M.val])

\* datetime.isoformat(), the seconds being zero
isoformat(dt) ==
  Pad4(dt.year) \o <<"-">> \o Pad2(dt.month) \o <<"-">> \o Pad2(dt.day)
    \o <<"T">> \o Pad2(dt.hour) \o <<":">> \o Pad2(dt.minute) \o <<":", "0", "0">>

MSG_NO_MATCH ==
  <<"D", "i", "d", " ", "n", "o", "t", " ", "f", "i", "n", "d", " ", "a", " ",
    "m", "a", "t", "c", "h", " ", "f", "o", "r", " ">>

\* the last month of the table whose name occurs in date; 0 when none does
LastMonth(date) ==
  IF \E m \in 1..Len(months) : Contains(months[m].ua, date)
  THEN CHOOSE m \in 1..Len(months) :
         /\ Contains(months[m].ua, date)
         /\ \A n \in (m + 1)..Len(months) : ~Contains(months[n].ua, date)
  ELSE 0

\* the first month of the table, in its order, whose name occurs in date; 0
\* when none does
FirstMonth(date) ==
  IF \E m \in 1..Len(months) : Contains(months[m].ua, date)
  THEN CHOOSE m \in 1..Len(months) :
         /\ Contains(months[m].ua, date)
         /\ \A n \in 1..(m - 1) : ~Contains(months[n].ua, date)
  ELSE 0

\* the date given back as it came when no month is found in it
standardise_date_lenient(date) ==
  LET m == FirstMonth(date) IN
  IF m = 0 THEN strptime(date)
  ELSE strptime(Replace(date, months[m].ua, months[m].en))

\* Metadata.standardise_date of items.py: the datetime itself
standardise_date(date) ==
  LET m == FirstMonth(date) IN
  IF m = 0 THEN Raise("ValueError", MSG_NO_MATCH \o date)
  ELSE strptime(Replace(date, months[m].ua, months[m].en))

\* a result with f applied to its value, or the exception as it is
Bind(r, f(_)) == IF r.kind = "raise" THEN r ELSE f(r.value)

\* Metadata.standardise_date of scraping.py and __init__.py: its ISO format
standardise_date_iso(date) ==
  LET iso(dt) == Return(isoformat(dt)) IN
  Bind(standardise_date(date), iso)

(***************************************************************************)
(* Optional values, URLs and responses                                     *)
(***************************************************************************)

\* Optional[T]: None, or the value
None == <<>>

Some(v) == <<v>>

WEBSITE ==
  <<"h", "t", "t", "p", "s", ":", "/", "/", "u", "a", "-", "e", "n", "e", "r",
    "g", "y", ".", "o", "r", "g">>

\* "ЧИТАЙТЕ ТАКОЖ"
MARKER ==
  <<"u0427", "u0418", "u0422", "u0410", "u0419", "u0422", "u0415", " ",
    "u0422", "u0410", "u041a", "u041e", "u0416">>

\* url carries a scheme and a host: "http://..." or "https://..."
HasSchemeAndHost(url) ==
  \/ StartsWith(url, <<"h", "t", "t", "p", ":", "/", "/">>)
  \/ StartsWith(url, <<"h", "t", "t", "p", "s", ":", "/", "/">>)

\* urllib.parse.urljoin(base, url) for a base with an empty path
urljoin(base, url) ==
  IF url = <<>> THEN base
  ELSE IF HasSchemeAndHost(url) THEN url
  ELSE IF StartsWith(url, <<"/", "/">>) THEN <<"h", "t", "t", "p", "s", ":">> \o url
  ELSE IF StartsWith(url, <<"/">>) THEN base \o url
  ELSE base \o <<"/">> \o url

\* re.compile(p).search(s), the pattern p holding literals and "."
RegexSearch(p, s) ==
  \E i \in 1..(Len(s) + 1) :
    /\ i + Len(p) - 1 <= Len(s)
    /\ \A k \in 1..Len(p) :
         IF p[k] = "." THEN s[i + k - 1] # "\n" ELSE s[i + k - 1] = p[k]

\* Response.raise_for_status() raises
IsErrorStatus(status) == status >= 400 /\ status < 600

\* the page of a response that carries none the code reads
NoListing == [h1 |-> "absent", sibling |-> <<>>, wraps |-> <<>>]

NoArticle == [body |-> None]

\* what the site answers for a date it has no news for, or a URL it lacks
ListingResponse(site, date) ==
  IF date \in DOMAIN site.listing THEN site.listing[date]
  ELSE [status |-> 404, page |-> NoListing]

ArticleResponse(site, url) ==
  IF url \in DOMAIN site.article THEN site.article[url]
  ELSE [status |-> 404, page |-> NoArticle]

Request(kind, target, response) ==
  [kind |-> kind, target |-> target, status |-> response.status]

\* the result of a call that sends requests: what it gives, and what it sent
Outcome(out, requests) == [out |-> out, requests |-> requests]

(***************************************************************************)
(* Metadata.from_tag                                                       *)
(*                                                                         *)
(* A listing block (div.article) is [anchor, href, title, spans]: whether  *)
(* it has an anchor, the anchor's href and text, its spans' texts.         *)
(***************************************************************************)

MSG_NONE_ATTR ==
  <<"'", "N", "o", "n", "e", "T", "y", "p", "e", "'", " ", "o", "b", "j", "e",
    "c", "t", " ", "h", "a", "s", " ", "n", "o", " ", "a", "t", "t", "r", "i",
    "b", "u", "t", "e">>

\* items.py: the date is a datetime
from_tag(tag) ==
  LET date_str   == Join(<<" ">>, tag.spans)
      make(date) == Return([url |-> tag.href, title |-> tag.title, date |-> date])
  IN  IF ~tag.anchor THEN Raise("AttributeError", MSG_NONE_ATTR)
      ELSE Bind(standardise_date(date_str), make)

\* scraping.py and __init__.py: the time is a string in ISO format
from_tag_iso(tag) ==
  LET date_str   == Join(<<" ">>, tag.spans)
      make(time) == Return([url |-> tag.href, title |-> tag.title, time |-> time])
  IN  IF ~tag.anchor THEN Raise("AttributeError", MSG_NONE_ATTR)
      ELSE Bind(standardise_date_iso(date_str), make)

(***************************************************************************)
(* Article.from_metadata                                                   *)
(*                                                                         *)
(* An article page is [body]: None, or the div.content-article-inner as    *)
(* [paras, tags]: its paragraphs in document order, each [text, links]     *)
(* (its text and the hrefs of its anchors), and its div.tags, None or the  *)
(* block's anchors, each [href, text].  The tags block follows the         *)
(* paragraphs.                                                             *)
(***************************************************************************)

\* [f(x) for x in seq]
Map(f(_), seq) == [k \in 1..Len(seq) |-> f(seq[k])]

RECURSIVE Flatten(_)
Flatten(seqs) == IF seqs = <<>> THEN <<>> ELSE seqs[1] \o Flatten(Tail(seqs))

\* the hrefs of the anchors of the div, in document order
AnchorHrefs(div) ==
  LET href(x) == x.href
      links(p) == p.links
  IN  Flatten(Map(links, div.paras))
        \o (IF div.tags = None THEN <<>> ELSE Map(href, div.tags[1]))

\* the texts of all the paragraphs, the marker not looked for
Paragraphs_unfiltered(div) ==
  LET text(p) == p.text IN Map(text, div.paras)

\* the texts of the paragraphs that do not hold the marker
Paragraphs(div) ==
  LET text(p) == p.text
      keep(p) == ~Contains(MARKER, p.text)
  IN  Map(text, SelectSeq(div.paras, keep))

RECURSIVE DictOf(_)
\* {k: v for ...}: a key keeps the place of its first insertion and the value
\* of its last
DictOf(pairs) ==
  IF pairs = <<>> THEN <<>>
  ELSE LET n    == Len(pairs)
           last == pairs[n]
           rest == DictOf(SubSeq(pairs, 1, n - 1))
       IN  IF \E k \in 1..Len(rest) : rest[k].href = last.href
           THEN [k \in 1..Len(rest) |->
                   IF rest[k].href = last.href THEN last ELSE rest[k]]
           ELSE Append(rest, last)

\* the list kept as it is, empty or not
OrNone_kept(x) == Some(x)

\* x or None
OrNone(x) == IF x = <<>> THEN None ELSE Some(x)

\* the anchors of the div whose href the pattern for the site's posts is found in
PostHrefs(div) ==
  LET pattern  == urljoin(WEBSITE, <<"u", "k", "/", "p", "o", "s", "t", "s">>)
      match(h) == RegexSearch(pattern, h)
  IN  SelectSeq(AnchorHrefs(div), match)

\* the texts of the anchors of the tags block, when there is one
TagTexts(div) ==
  LET text(t) == t.text IN
  IF div.tags # None THEN Some(Map(text, div.tags[1])) ELSE None

\* the tags block as a dict from href to text, when there is one
TagDict(div) == IF div.tags # None THEN Some(DictOf(div.tags[1])) ELSE None

\* the first link of each paragraph that holds the marker and a link
SimilarHrefs(div) ==
  LET also(p)  == Contains(MARKER, p.text) /\ p.links # <<>>
      first(p) == p.links[1]
  IN  Map(first, SelectSeq(div.paras, also))

\* the article given the url of the metadata, not the one requested
article_of_unresolved(metadata, url, response) ==
  IF IsErrorStatus(response.status) THEN Raise("HTTPError", url)
  ELSE IF response.page.body = None
  THEN Return([url |-> metadata.url, title |-> metadata.title, date |-> metadata.date,
               text |-> None, tags |-> None, hrefs |-> None])
  ELSE Return([url |-> metadata.url, title |-> metadata.title, date |-> metadata.date,
               text |-> Some(Join(<<" ">>, Paragraphs(response.page.body[1]))),
               tags |-> TagTexts(response.page.body[1]),
               hrefs |-> OrNone(PostHrefs(response.page.body[1]))])

\* items.py, from the response on
article_of(metadata, url, response) ==
  IF IsErrorStatus(response.status) THEN Raise("HTTPError", url)
  ELSE IF response.page.body = None
  THEN Return([url |-> url, title |-> metadata.title, date |-> metadata.date,
               text |-> None, tags |-> None, hrefs |-> None])
  ELSE Return([url |-> url, title |-> metadata.title, date |-> metadata.date,
               text |-> Some(Join(<<" ">>, Paragraphs(response.page.body[1]))),
               tags |-> TagTexts(response.page.body[1]),
               hrefs |-> OrNone(PostHrefs(response.page.body[1]))])

\* scraping.py, from the response on: the tags are a dict from href to text
article_of_scraping(metadata, url, response) ==
  IF IsErrorStatus(response.status) THEN Raise("HTTPError", url)
  ELSE IF response.page.body = None
  THEN Return([url |-> url, title |-> metadata.title, time |-> metadata.time,
               text |-> None, tags |-> None, hrefs |-> None])
  ELSE Return([url |-> url, title |-> metadata.title, time |-> metadata.time,
               text |-> Some(Join(<<" ">>, Paragraphs(response.page.body[1]))),
               tags |-> TagDict(response.page.body[1]),
               hrefs |-> OrNone(PostHrefs(response.page.body[1]))])

\* __init__.py, from the response on: the related links are the first link of
\* each paragraph that holds the marker
article_of_init(metadata, url, response) ==
  IF IsErrorStatus(response.status) THEN Raise("HTTPError", url)
  ELSE IF response.page.body = None
  THEN Return([url |-> url, title |-> metadata.title, time |-> metadata.time,
               text |-> None, tags |-> None, similar |-> None])
  ELSE Return([url |-> url, title |-> metadata.title, time |-> metadata.time,
               text |-> Some(Join(<<" ">>, Paragraphs(response.page.body[1]))),
               tags |-> TagDict(response.page.body[1]),
               similar |-> OrNone(SimilarHrefs(response.page.body[1]))])

\* the URL requested: items.py and scraping.py join it to the site's address
absolute_url(url) ==
  IF ~StartsWith(url, <<"h", "t", "t", "p", "s">>) THEN urljoin(WEBSITE, url)
  ELSE url

\* __init__.py puts the site's address before it
absolute_url_init(url) ==
  IF ~StartsWith(url, <<"h", "t", "t", "p", "s">>) THEN WEBSITE \o url
  ELSE url

\* the request for an article and what came of it
Fetched(url, response, out) == Outcome(out, <<Request("article", url, response)>>)

\* items.py
from_metadata(metadata, site) ==
  LET url == absolute_url(metadata.url) IN
  Fetched(url, ArticleResponse(site, url),
          article_of(metadata, url, ArticleResponse(site, url)))

\* scraping.py
from_metadata_scraping(metadata, site) ==
  LET url == absolute_url(metadata.url) IN
  Fetched(url, ArticleResponse(site, url),
          article_of_scraping(metadata, url, ArticleResponse(site, url)))

\* __init__.py
from_metadata_init(metadata, site) ==
  LET url == absolute_url_init(metadata.url) IN
  Fetched(url, ArticleResponse(site, url),
          article_of_init(metadata, url, ArticleResponse(site, url)))

(***************************************************************************)
(* parse_news                                                              *)
(*                                                                         *)
(* A listing page is [h1, sibling, wraps]: h1 tells what follows the       *)
(* h1.title heading ("absent": the page has no such heading, "last": the   *)
(* heading has no next sibling, "text": a text node follows it, "tag": an  *)
(* element does), sibling holds the div.article blocks of that element,    *)
(* and wraps holds, for each div.wrap of the page in document order, its   *)
(* div.article blocks.  A DataFrame is the sequence of its rows, wrapped   *)
(* so that an empty one is not None.                                       *)
(***************************************************************************)

DataFrame(rows) == Some(rows)

Rows(df) == df[1]

\* the first index whose result is a raised exception, 0 when none is
FirstRaise(results) ==
  IF \E k \in 1..Len(results) : results[k].kind = "raise"
  THEN CHOOSE k \in 1..Len(results) :
         /\ results[k].kind = "raise"
         /\ \A j \in 1..(k - 1) : results[j].kind # "raise"
  ELSE 0

\* the values of the results, or the first exception among them
AllOrFirstRaise(results) ==
  LET value(r) == r.value IN
  IF FirstRaise(results) = 0 THEN Return(Map(value, results))
  ELSE results[FirstRaise(results)]

\* list(map(f, seq)), f raising: the first exception ends the evaluation
TryMap(f(_), seq) == AllOrFirstRaise(Map(f, seq))

\* the outcomes up to the first that raised, all of them when none did
UpToFirstRaise(outcomes) ==
  LET out(o) == o.out IN
  IF FirstRaise(Map(out, outcomes)) = 0 THEN outcomes
  ELSE SubSeq(outcomes, 1, FirstRaise(Map(out, outcomes)))

\* the rows of the outcomes, or the first exception, with the requests sent
Gather(outcomes) ==
  LET out(o)  == o.out
      sent(o) == o.requests
  IN  Outcome(AllOrFirstRaise(Map(out, outcomes)), Flatten(Map(sent, outcomes)))

\* [Article.from_metadata(m) for m in metadata_list]: the first exception
\* ends the evaluation, and no request is sent after it
TryFetch(f(_), metadata_list) == Gather(UpToFirstRaise(Map(f, metadata_list)))

\* the request for the listing of a date
NewsRequest(date, response) == <<Request("listing", date, response)>>

\* pd.DataFrame(rows), after the requests sent before
Frame(sent, rows) ==
  LET frame(list) == Return(DataFrame(list)) IN
  Outcome(Bind(rows.out, frame), sent \o rows.requests)

\* the frame of the articles of the metadata, when they could be read
Articles(sent, metadata_list, fetch(_)) ==
  IF metadata_list.kind = "raise" THEN Outcome(metadata_list, sent)
  ELSE Frame(sent, TryFetch(fetch, metadata_list.value))

MSG_STRING_ATTR ==
  <<"'", "N", "a", "v", "i", "g", "a", "b", "l", "e", "S", "t", "r", "i", "n",
    "g", "'", " ", "o", "b", "j", "e", "c", "t", " ", "h", "a", "s", " ", "n",
    "o", " ", "a", "t", "t", "r", "i", "b", "u", "t", "e">>

\* scraping.py, from the response on: the listing is what follows the h1.title
\* heading; without the heading, or with nothing or a text after it, there is
\* no element to search
news_of(date, site, response) ==
  LET fetch(m) == from_metadata_scraping(m, site) IN
  IF IsErrorStatus(response.status)
  THEN Outcome(Raise("HTTPError", date), NewsRequest(date, response))
  ELSE IF response.page.h1 \in {"absent", "last"}
  THEN Outcome(Raise("AttributeError", MSG_NONE_ATTR), NewsRequest(date, response))
  ELSE IF response.page.h1 = "text"
  THEN Outcome(Raise("AttributeError", MSG_STRING_ATTR), NewsRequest(date, response))
  ELSE Articles(NewsRequest(date, response),
                TryMap(from_tag_iso, response.page.sibling), fetch)

\* scraping.py
parse_news(date, site) == news_of(date, site, ListingResponse(site, date))

MSG_INDEX ==
  <<"l", "i", "s", "t", " ", "i", "n", "d", "e", "x", " ", "o", "u", "t", " ",
    "o", "f", " ", "r", "a", "n", "g", "e">>

\* __init__.py, from the response on: the listing is the second div.wrap
news_of_init(date, site, response) ==
  LET fetch(m) == from_metadata_init(m, site) IN
  IF IsErrorStatus(response.status)
  THEN Outcome(Raise("HTTPError", date), NewsRequest(date, response))
  ELSE IF Len(response.page.wraps) < 2
  THEN Outcome(Raise("IndexError", MSG_INDEX), NewsRequest(date, response))
  ELSE Articles(NewsRequest(date, response),
                TryMap(from_tag_iso, response.page.wraps[2]), fetch)

\* __init__.py
parse_news_init(date, site) == news_of_init(date, site, ListingResponse(site, date))

\* the listing of a page: after the heading, or else in the second wrapper;
\* a page without either lists nothing
ListingBlocks(page) ==
  IF page.h1 = "tag" THEN page.sibling
  ELSE IF Len(page.wraps) >= 2 THEN page.wraps[2]
  ELSE <<>>

\* the frame of the articles that could be fetched, those that could not left out
FrameOfFetched(sent, outcomes) ==
  LET worked(o) == o.out.kind = "return"
      row(o)    == o.out.value
      reqs(o)   == o.requests
  IN  Outcome(Return(DataFrame(Map(row, SelectSeq(outcomes, worked)))),
              sent \o Flatten(Map(reqs, outcomes)))

ArticlesFetched(sent, metadata_list, fetch(_)) ==
  IF metadata_list.kind = "raise" THEN Outcome(metadata_list, sent)
  ELSE FrameOfFetched(sent, Map(fetch, metadata_list.value))

news_of_session(date, site, response) ==
  LET fetch(m) == from_metadata(m, site) IN
  IF response.status = 404
  THEN Outcome(Return(None), NewsRequest(date, response))
  ELSE IF IsErrorStatus(response.status)
  THEN Outcome(Raise("HTTPError", date), NewsRequest(date, response))
  ELSE ArticlesFetched(NewsRequest(date, response),
                       TryMap(from_tag, ListingBlocks(response.page)), fetch)

\* The parse_news(date, session) the click command calls: it gives None for a
\* day without news (HTTP 404), fails on any other error status, reads the
\* listing after the heading or else in the second wrapper and takes a page
\* without either as a day of no articles, lets a date it cannot read fail,
\* and leaves out an article whose page cannot be fetched.
parse_news_session(date, site) ==
  news_of_session(date, site, ListingResponse(site, date))

(***************************************************************************)
(* The days of a run                                                       *)
(***************************************************************************)

Date(y, m, d) == [year |-> y, month |-> m, day |-> d]

NextDay(d) ==
  IF d.day < DaysInMonth(d.year, d.month) THEN Date(d.year, d.month, d.day + 1)
  ELSE IF d.month < 12 THEN Date(d.year, d.month + 1, 1)
  ELSE Date(d.year + 1, 1, 1)

\* a < b for dates and for datetimes: field by field
DateLess(a, b) ==
  \/ a.year < b.year
  \/ a.year = b.year /\ a.month < b.month
  \/ a.year = b.year /\ a.month = b.month /\ a.day < b.day

DatetimeLess(a, b) ==
  \/ DateLess(a, b)
  \/ /\ a.year = b.year /\ a.month = b.month /\ a.day = b.day
     /\ \/ a.hour < b.hour
        \/ a.hour = b.hour /\ a.minute < b.minute

RECURSIVE date_range(_, _)
\* pd.date_range(start, end, freq="D"): every day from start to end, both
\* included; none when end is before start
date_range(start, end) ==
  IF DateLess(end, start) THEN <<>>
  ELSE <<start>> \o date_range(NextDay(start), end)

\* strftime("%d-%m-%Y")
strftime(d) ==
  Pad2(d.day) \o <<"-">> \o Pad2(d.month) \o <<"-">> \o Pad4(d.year)

\* strftime("%Y-%m-%d"), the form the click command's options are given in
strftime_ymd(d) ==
  Pad4(d.year) \o <<"-">> \o Pad2(d.month) \o <<"-">> \o Pad2(d.day)

Num2(s, i) == 10 * DigitVal(s[i]) + DigitVal(s[i + 1])

Num4(s, i) == 100 * Num2(s, i) + Num2(s, i + 2)

\* click.DateTime(formats=["%Y-%m-%d"]) on "YYYY-MM-DD"
click_DateTime(s) == Date(Num4(s, 1), Num2(s, 6), Num2(s, 9))

\* pd.Timestamp(s) on "NN-NN-YYYY", as pd.date_range reads a string end point:
\* the month comes first, unless that number cannot be a month
Timestamp(s) ==
  LET first  == Num2(s, 1)
      second == Num2(s, 4)
      year   == Num4(s, 7)
  IN  IF first > 12 THEN Date(year, second, first) ELSE Date(year, first, second)

\* the orders random.shuffle can leave a list in
Shuffles(seq) ==
  LET n == Len(seq)
      perms == {p \in [1..n -> 1..n] : \A i, j \in 1..n : p[i] = p[j] => i = j}
  IN  {[k \in 1..n |-> seq[p[k]]] : p \in perms}

(***************************************************************************)
(* pd.concat and DataFrame.sort_values                                     *)
(***************************************************************************)

MSG_NO_OBJECTS ==
  <<"N", "o", " ", "o", "b", "j", "e", "c", "t", "s", " ", "t", "o", " ", "c",
    "o", "n", "c", "a", "t", "e", "n", "a", "t", "e">>

\* pd.concat(data, axis=0, ignore_index=True)
concat(data) ==
  IF data = <<>> THEN Raise("ValueError", MSG_NO_OBJECTS)
  ELSE Return(DataFrame(Flatten(Map(Rows, data))))

\* row a sorts before row b by the column
Before(column, a, b) ==
  IF column = "time" THEN StrLess(a.time, b.time) ELSE DatetimeLess(a.date, b.date)

RECURSIVE Insert(_, _, _)
\* row put after the rows that do not sort after it
Insert(column, row, rows) ==
  IF rows = <<>> THEN <<row>>
  ELSE IF Before(column, row, rows[1]) THEN <<row>> \o rows
  ELSE <<rows[1]>> \o Insert(column, row, Tail(rows))

RECURSIVE SortRows(_, _)
SortRows(column, rows) ==
  IF rows = <<>> THEN <<>>
  ELSE Insert(column, rows[Len(rows)], SortRows(column, SubSeq(rows, 1, Len(rows) - 1)))

\* the frame given back as it was: the sorted copy is dropped
sort_values_dropped(df, column) ==
  IF Rows(df) = <<>> THEN Raise("KeyError", <<column>>) ELSE Return(df)

\* df.sort_values(column, ascending=True, ignore_index=True).  Rows with equal
\* keys keep their order, as the insertion pass of the default sort leaves
\* them in frames this short.  A frame made of empty frames alone has no
\* columns at all, and none to sort by.
sort_values(df, column) ==
  IF Rows(df) = <<>> THEN Raise("KeyError", <<column>>)
  ELSE Return(DataFrame(SortRows(column, Rows(df))))

(***************************************************************************)
(* The site: what it serves for the days and the articles of a run         *)
(***************************************************************************)

\* the longest range of days a run is asked for
MaxDays == 2

PostPath(name) == <<"/", "u", "k", "/", "p", "o", "s", "t", "s", "/">> \o name

\* "21 грудня 2020," and the like
DayText(day, month, year) == day \o <<" ">> \o month \o <<" ">> \o year \o <<",">>

Y2020 == <<"2", "0", "2", "0">>

BlockA ==
  [anchor |-> TRUE, href |-> PostPath(<<"a">>), title |-> <<"A">>,
   spans |-> <<DayText(<<"2", "1">>, months[12].ua, Y2020), <<"1", "4", ":", "3", "0">>>>]

\* published before BlockA
BlockB ==
  [anchor |-> TRUE, href |-> PostPath(<<"b">>), title |-> <<"B">>,
   spans |-> <<DayText(<<"2", "0">>, months[12].ua, Y2020), <<"0", "9", ":", "0", "5">>>>]

\* published at the time of BlockA, linked by its full address
BlockC ==
  [anchor |-> TRUE, href |-> WEBSITE \o PostPath(<<"c">>), title |-> <<"C">>,
   spans |-> <<DayText(<<"2", "1">>, months[12].ua, Y2020), <<"1", "4", ":", "3", "0">>>>]

\* "грудень": December as the calendar names it, not as a date does
Gruden == <<"u0433", "u0440", "u0443", "u0434", "u0435", "u043d", "u044c">>

\* the dates no month of the table occurs in: with the English name, and with
\* the nominative one
UndatedSpans ==
  { <<DayText(<<"2", "1">>, months[12].en, Y2020), <<"1", "4", ":", "3", "0">>>>,
    <<DayText(<<"2", "1">>, Gruden, Y2020), <<"1", "4", ":", "3", "0">>>> }

BlockX(spans) ==
  [anchor |-> TRUE, href |-> PostPath(<<"x">>), title |-> <<"X">>, spans |-> spans]

\* a page of the current template listing the blocks
ListingPage(blocks) ==
  [status |-> 200, page |-> [h1 |-> "tag", sibling |-> blocks, wraps |-> <<<<>>, blocks>>]]

ListingResponses ==
  { [status |-> 404, page |-> NoListing],
    [status |-> 500, page |-> NoListing],
    [status |-> 200, page |-> [h1 |-> "absent", sibling |-> <<>>, wraps |-> <<<<>>>>]],
    ListingPage(<<>>),
    ListingPage(<<BlockA>>),
    ListingPage(<<BlockB, BlockC>>) }
    \cup {ListingPage(<<BlockA, BlockX(spans)>>) : spans \in UndatedSpans}

FullArticle ==
  [status |-> 200,
   page |-> [body |-> Some(
     [paras |-> << [text |-> <<"G", "a", "s", ".">>, links |-> <<>>],
                   [text |-> MARKER \o <<":", " ", "m", "o", "r", "e">>,
                    links |-> <<PostPath(<<"o", "t", "h", "e", "r">>)>>] >>,
      tags |-> Some(<< [href |-> <<"/", "u", "k", "/", "t", "a", "g", "s", "/", "g", "a", "s">>,
                        text |-> <<"g", "a", "s">>] >>)])]]

WithdrawnArticle == [status |-> 200, page |-> NoArticle]

FailingArticle == [status |-> 500, page |-> NoArticle]

ArticleUrls == {WEBSITE \o PostPath(<<n>>) : n \in {"a", "b", "c", "x"}}

\* every article is served in full, but for at most one of them
ArticleSites ==
  LET all == [u \in ArticleUrls |-> FullArticle] IN
  {all,
   [all EXCEPT ![WEBSITE \o PostPath(<<"b">>)] = FailingArticle],
   [all EXCEPT ![WEBSITE \o PostPath(<<"a">>)] = WithdrawnArticle]}

\* the first days the runs are asked for
StartDates == {Date(2020, 12, 30), Date(2021, 1, 12)}

RECURSIVE DaysFrom(_, _)
\* the n days from d on
DaysFrom(d, n) == IF n = 0 THEN <<>> ELSE <<d>> \o DaysFrom(NextDay(d), n - 1)

\* the sites that serve something for each of the days
Sites(days) ==
  LET dates == {strftime(days[k]) : k \in 1..Len(days)} IN
  {[listing |-> l, article |-> a] : l \in [dates -> ListingResponses], a \in ArticleSites}

(***************************************************************************)
(* The run: scrape of __main__.py ("cli") and the main block of            *)
(* scraping.py ("script")                                                  *)
(***************************************************************************)

VARIABLES
  entry,     \* which of the two is run
  args,      \* its options: start, end (as typed), random
  days,      \* the days from start to end the user means
  site,      \* what the site serves
  pc,        \* "start", "loop", "saved", "failed"
  dates,     \* the dates to fetch, in the order of fetching
  idx,       \* the place in dates of the next one
  data,      \* the frames collected
  corpus,    \* the frame saved
  error,     \* None, or the exception that ended the run
  requests,  \* the requests sent so far
  call,      \* a function of the package called on its own, and its arguments
  result     \* None, or what the call gave

vars ==
  <<entry, args, days, site, pc, dates, idx, data, corpus, error, requests,
    call, result>>

\* the column the frame is sorted by
SortColumn == IF entry = "script" THEN "time" ELSE "date"

Init ==
  /\ entry \in {"script", "cli"}
  /\ \E start \in StartDates, n \in 1..MaxDays, random \in BOOLEAN :
       /\ days = DaysFrom(start, n)
       /\ args = IF entry = "script"
                 THEN [start |-> strftime(days[1]), end |-> strftime(days[n]),
                       random |-> random]
                 ELSE [start |-> strftime_ymd(days[1]), end |-> strftime_ymd(days[n]),
                       random |-> random]
  /\ site \in Sites(days)
  /\ pc = "start"
  /\ dates = <<>>
  /\ idx = 1
  /\ data = <<>>
  /\ corpus = None
  /\ error = None
  /\ requests = <<>>
  /\ call = None
  /\ result = None

\* the dates of the run: the days from start to end as the listing URL takes
\* them
RunDates ==
  IF entry = "script"
  THEN Map(strftime, date_range(Timestamp(args.start), Timestamp(args.end)))
  ELSE Map(strftime, date_range(click_DateTime(args.start), click_DateTime(args.end)))

\* shuffled when asked
MakeDates ==
  /\ pc = "start"
  /\ dates' \in (IF args.random THEN Shuffles(RunDates) ELSE {RunDates})
  /\ pc' = "loop"
  /\ UNCHANGED <<entry, args, days, site, idx, data, corpus, error, requests, call, result>>

\* a loop that keeps the frame of the last date alone
Scraped_overwriting(r) ==
  /\ requests' = requests \o r.requests
  /\ IF r.out.kind = "raise"
     THEN /\ pc' = "failed"
          /\ error' = Some(r.out)
          /\ UNCHANGED <<idx, data>>
     ELSE /\ idx' = idx + 1
          /\ data' = IF entry = "cli" /\ r.out.value = None THEN data
                     ELSE <<r.out.value>>
          /\ UNCHANGED <<pc, error>>

\* a loop that catches what parse_news raises and goes on to the next date
Scraped_caught(r) ==
  /\ requests' = requests \o r.requests
  /\ idx' = idx + 1
  /\ data' = IF r.out.kind = "raise" \/ (entry = "cli" /\ r.out.value = None) THEN data
             ELSE Append(data, r.out.value)
  /\ UNCHANGED <<pc, error>>

\* what the loop does with what parse_news gave: an exception ends the run;
\* the click command skips a None, and any other frame is kept
Scraped(r) ==
  /\ requests' = requests \o r.requests
  /\ IF r.out.kind = "raise"
     THEN /\ pc' = "failed"
          /\ error' = Some(r.out)
          /\ UNCHANGED <<idx, data>>
     ELSE /\ idx' = idx + 1
          /\ data' = IF entry = "cli" /\ r.out.value = None THEN data
                     ELSE Append(data, r.out.value)
          /\ UNCHANGED <<pc, error>>

\* one turn of the loop over the dates
ScrapeDate ==
  /\ pc = "loop"
  /\ idx <= Len(dates)
  /\ Scraped(IF entry = "script" THEN parse_news(dates[idx], site)
             ELSE parse_news_session(dates[idx], site))
  /\ UNCHANGED <<entry, args, days, site, dates, corpus, call, result>>

\* pd.concat, then sort_values on the frame it gave
ConcatSorted(df, column) ==
  LET sort(frame) == sort_values(frame, column) IN
  Bind(df, sort)

\* the run ends saved with the frame, or failed with the exception
Saved(sorted) ==
  IF sorted.kind = "raise"
  THEN /\ pc' = "failed"
       /\ error' = Some(sorted)
       /\ UNCHANGED corpus
  ELSE /\ pc' = "saved"
       /\ corpus' = sorted.value
       /\ UNCHANGED error

\* after the loop: concatenate, sort, save
Finish ==
  /\ pc = "loop"
  /\ idx > Len(dates)
  /\ Saved(ConcatSorted(concat(data), SortColumn))
  /\ UNCHANGED <<entry, args, days, site, dates, idx, data, requests, call, result>>

Next == MakeDates \/ ScrapeDate \/ Finish

Spec == Init /\ [][Next]_vars

(***************************************************************************)
(* The run: what is claimed of it                                          *)
(***************************************************************************)

Listings == {k \in 1..Len(requests) : requests[k].kind = "listing"}

ArticleFetches == {k \in 1..Len(requests) : requests[k].kind = "article"}

\* the date has been asked for
Requested(date) == \E k \in Listings : requests[k].target = date

\* C1: a listing request answered with HTTP 404 raises no error and brings no
\* article of its date; the run goes on, and when it is over every date of the
\* sequence has been fetched.
C1_NotFoundIsSkipped ==
  \A k \in Listings :
    requests[k].status = 404 =>
      /\ error # Some(Raise("HTTPError", requests[k].target))
      /\ k < Len(requests) => requests[k + 1].kind = "listing"
      /\ pc = "saved" => \A d \in 1..Len(dates) : Requested(dates[d])

\* C2: a listing request answered with an error status other than 404 is the
\* last request of the run: the run has failed with the error of that date,
\* and nothing is saved.
C2_ServerErrorEndsRun ==
  \A k \in Listings :
    requests[k].status \notin {200, 404} =>
      /\ k = Len(requests)
      /\ pc = "failed"
      /\ error = Some(Raise("HTTPError", requests[k].target))
      /\ corpus = None

\* a run failed on the HTTP 500 of a date with a later date still to fetch
C2_Witness ==
  /\ pc = "failed"
  /\ requests # <<>>
  /\ requests[Len(requests)].kind = "listing"
  /\ requests[Len(requests)].status = 500
  /\ idx < Len(dates)
  /\ ~Requested(dates[idx + 1])

\* C3: an article request answered with an HTTP error does not end the run:
\* the error of that article is not the run's, and the articles of the day
\* listed after it are still asked for.
C3_ArticleErrorIsSkipped ==
  \A k \in ArticleFetches :
    requests[k].status # 200 =>
      /\ error # Some(Raise("HTTPError", requests[k].target))
      /\ requests[k].target = WEBSITE \o BlockB.href =>
           \E j \in ArticleFetches : j > k /\ requests[j].target = BlockC.href

\* the publication time of a row: the date of a row of the click command, the
\* ISO string "YYYY-MM-DDTHH:MM:SS" of a row of the script read back
PublishedAt(row) ==
  IF entry = "script"
  THEN [year |-> Num4(row.time, 1), month |-> Num2(row.time, 6),
        day |-> Num2(row.time, 9), hour |-> Num2(row.time, 12),
        minute |-> Num2(row.time, 15)]
  ELSE row.date

\* how many times the row is in the sequence
Count(row, rows) == Cardinality({k \in 1..Len(rows) : rows[k] = row})

AllRows(frames) == Flatten(Map(Rows, frames))

\* C4: the corpus saved has each row of each day's frame, as many times as the
\* frames do, and no other (so as many rows as the frames together), in
\* non-decreasing order of publication time.
C4_CorpusIsSortedUnion ==
  pc = "saved" =>
    /\ Len(Rows(corpus)) = Len(AllRows(data))
    /\ \A k \in 1..Len(AllRows(data)) :
         Count(AllRows(data)[k], Rows(corpus)) = Count(AllRows(data)[k], AllRows(data))
    /\ \A i, j \in 1..Len(Rows(corpus)) :
         i < j => ~DatetimeLess(PublishedAt(Rows(corpus)[j]), PublishedAt(Rows(corpus)[i]))

\* saved, a day fetched later having an article published before one of a day
\* fetched earlier
C4_Witness ==
  /\ pc = "saved"
  /\ Len(data) = 2
  /\ \E i \in 1..Len(Rows(data[1])), j \in 1..Len(Rows(data[2])) :
       DatetimeLess(PublishedAt(Rows(data[2])[j]), PublishedAt(Rows(data[1])[i]))

\* the loop over the dates is over
LoopDone == pc = "saved" \/ (pc = "loop" /\ idx > Len(dates))

\* C9: the listing of every day from start to end, both included, is
\* requested, each once, and the listing of no other day, shuffled or not.
C9_EveryDayOnce ==
  /\ \A k \in Listings : \E i \in 1..Len(days) : requests[k].target = strftime(days[i])
  /\ \A k, j \in Listings : requests[k].target = requests[j].target => k = j
  /\ LoopDone => \A i \in 1..Len(days) : Requested(strftime(days[i]))

\* the frames a run over the dates in that order collects from the site
FramesOver(order) ==
  LET news(date) == IF entry = "script" THEN parse_news(date, site).out
                    ELSE parse_news_session(date, site).out
      kept(out)  == out.kind = "return" /\ out.value # None
      frame(out) == out.value
  IN  Map(frame, SelectSeq(Map(news, order), kept))

\* C10: the corpus saved by a run is the corpus of the run over the same range
\* and site that fetches the days in their calendar order, row for row, also
\* when rows share a publication time.
C10_OrderOfFetchingIsForgotten ==
  pc = "saved" =>
    Some(corpus) = Some(ConcatSorted(concat(FramesOver(RunDates)), SortColumn).value)

\* the rows a run over the range and the site collects when it fetches the
\* days in their calendar order
RowsInOrder == AllRows(FramesOver(RunDates))

\* C11: the corpus a run saves, in whatever order it fetched the days, has the
\* rows the run over the same range and site in calendar order collects, each
\* as many times: any two runs save the same rows up to their order.
C11_RerunSavesSameRows ==
  pc = "saved" =>
    /\ Len(RowsInOrder) = Len(Rows(corpus))
    /\ \A k \in 1..Len(Rows(corpus)) :
         Count(Rows(corpus)[k], RowsInOrder) = Count(Rows(corpus)[k], Rows(corpus))

\* saved after fetching two days out of their calendar order, both with articles
C11_Witness ==
  /\ pc = "saved"
  /\ Len(dates) = 2
  /\ dates # RunDates
  /\ Len(data) = 2
  /\ Rows(data[1]) # <<>>
  /\ Rows(data[2]) # <<>>

\* the run went through every date of a range that is not empty and is over,
\* no day having brought an article
EmptyRunOver ==
  /\ dates # <<>>
  /\ idx > Len(dates)
  /\ pc \in {"saved", "failed"}
  /\ AllRows(data) = <<>>

\* C17: a run no day of which brought an article (each skipped as without
\* news, or listing no article) ends saved, with a corpus of no rows; it does
\* not fail when the frames are concatenated and sorted.
C17_EmptyRunIsSaved ==
  EmptyRunOver =>
    /\ pc = "saved"
    /\ error = None
    /\ Rows(corpus) = <<>>

(***************************************************************************)
(* The functions of the package, each called on its own                    *)
(***************************************************************************)

\* no run is under way
NoRun ==
  /\ entry = "call"
  /\ args = None
  /\ days = <<>>
  /\ pc = "call"
  /\ dates = <<>>
  /\ idx = 1
  /\ data = <<>>
  /\ corpus = None
  /\ error = None
  /\ requests = <<>>

\* "січень" ... "грудень": the months as the calendar names them
nominative ==
  <<<<"u0441", "u0456", "u0447", "u0435", "u043d", "u044c">>,
    <<"u043b", "u044e", "u0442", "u0438", "u0439">>,
    <<"u0431", "u0435", "u0440", "u0435", "u0437", "u0435", "u043d", "u044c">>,
    <<"u043a", "u0432", "u0456", "u0442", "u0435", "u043d", "u044c">>,
    <<"u0442", "u0440", "u0430", "u0432", "u0435", "u043d", "u044c">>,
    <<"u0447", "u0435", "u0440", "u0432", "u0435", "u043d", "u044c">>,
    <<"u043b", "u0438", "u043f", "u0435", "u043d", "u044c">>,
    <<"u0441", "u0435", "u0440", "u043f", "u0435", "u043d", "u044c">>,
    <<"u0432", "u0435", "u0440", "u0435", "u0441", "u0435", "u043d", "u044c">>,
    <<"u0436", "u043e", "u0432", "u0442", "u0435", "u043d", "u044c">>,
    <<"u043b", "u0438", "u0441", "u0442", "u043e", "u043f", "u0430", "u0434">>,
    <<"u0433", "u0440", "u0443", "u0434", "u0435", "u043d", "u044c">>>>

\* a number as the site writes it: in two digits, or as short as it goes
Number(n, pad) == IF pad \/ n >= 10 THEN Pad2(n) ELSE <<Digits[n + 1]>>

\* The date strings the functions are called on.  what is [day, month, year,
\* hour, minute, pad, form]; the form tells how the month is written:
\* "genitive" is the site's "<day> <month> <year>, <HH:MM>"; "english" and
\* "nominative" name the month otherwise, "numeric" writes "<day>.<month>.<year>,
\* <HH:MM>", "twice" follows a date of the site with the name of the next month.
DateText(what) ==
  LET rest == <<" ">> \o Pad4(what.year) \o <<",", " ">> \o Number(what.hour, what.pad)
                \o <<":">> \o Pad2(what.minute)
      day  == Number(what.day, what.pad)
  IN  CASE what.form = "genitive" -> day \o <<" ">> \o months[what.month].ua \o rest
        [] what.form = "english" -> day \o <<" ">> \o months[what.month].en \o rest
        [] what.form = "nominative" -> day \o <<" ">> \o nominative[what.month] \o rest
        [] what.form = "numeric" -> day \o <<".">> \o Pad2(what.month) \o <<".">>
                                      \o Pad4(what.year) \o <<",", " ">>
                                      \o Number(what.hour, what.pad)
                                      \o <<":">> \o Pad2(what.minute)
        [] what.form = "twice" -> day \o <<" ">> \o months[what.month].ua \o rest
                                    \o <<" ">> \o months[(what.month % 12) + 1].ua

Clock(h, m) == [hour |-> h, minute |-> m]

Dated ==
  {[day |-> d, month |-> m, year |-> y, hour |-> t.hour, minute |-> t.minute,
    pad |-> p, form |-> f] :
     d \in {1, 9, 21, 29, 30, 31}, m \in 1..12, y \in {2020, 2021},
     t \in {Clock(0, 0), Clock(9, 5), Clock(23, 59)},
     p \in BOOLEAN,
     f \in {"genitive", "english", "nominative", "numeric", "twice"}}

DateCalls ==
  {[fn |-> f, what |-> w, date |-> DateText(w)] :
     f \in {"standardise_date", "standardise_date_iso"}, w \in Dated}

\* the paragraphs an article is put together from
ParaKinds ==
  { [text |-> <<"G", "a", "s", ".">>, links |-> <<>>],
    [text |-> <<"O", "i", "l">>, links |-> <<WEBSITE \o PostPath(<<"o", "i", "l">>)>>],
    [text |-> MARKER \o <<":", " ", "m", "o", "r", "e">>,
     links |-> <<PostPath(<<"o", "t", "h", "e", "r">>)>>],
    [text |-> MARKER, links |-> <<>>] }

TagGas ==
  [href |-> <<"/", "u", "k", "/", "t", "a", "g", "s", "/", "g", "a", "s">>,
   text |-> <<"g", "a", "s">>]

TagOil ==
  [href |-> <<"/", "u", "k", "/", "t", "a", "g", "s", "/", "o", "i", "l">>,
   text |-> <<"o", "i", "l">>]

\* the longest sequence of paragraphs, of tags and of listing blocks of a page
MaxParts == 2

SeqsUpTo(S, n) == UNION {[1..k -> S] : k \in 0..n}

ArticlePages ==
  {NoArticle}
    \cup {[body |-> Some([paras |-> ps, tags |-> ts])] :
            ps \in SeqsUpTo(ParaKinds, MaxParts),
            ts \in {None} \cup {Some(t) : t \in SeqsUpTo({TagGas, TagOil}, MaxParts)}}

ArticleAnswers ==
  {[status |-> 200, page |-> p] : p \in ArticlePages}
    \cup {[status |-> 404, page |-> NoArticle], FailingArticle}

\* the URLs a listing gives for an article: a path on the site, from its
\* root or not, the full address, the address without encryption
Hrefs ==
  { PostPath(<<"a">>),
    <<"u", "k", "/", "p", "o", "s", "t", "s", "/", "a">>,
    WEBSITE \o PostPath(<<"a">>),
    <<"h", "t", "t", "p", ":", "/", "/", "u", "a", "-", "e", "n", "e", "r", "g", "y",
      ".", "o", "r", "g">> \o PostPath(<<"a">>) }

\* a site that answers every one of the URLs the same
SiteAnswering(answer) ==
  [listing |-> <<>>,
   article |-> [u \in Hrefs \cup {WEBSITE \o h : h \in Hrefs} |-> answer]]

Published == [year |-> 2020, month |-> 12, day |-> 21, hour |-> 14, minute |-> 30]

ArticleCalls ==
  {[fn |-> "from_metadata",
    metadata |-> [url |-> u, title |-> <<"A">>, date |-> Published],
    answer |-> a] : u \in Hrefs, a \in ArticleAnswers}
  \cup
  {[fn |-> f,
    metadata |-> [url |-> u, title |-> <<"A">>, time |-> isoformat(Published)],
    answer |-> a] :
     f \in {"from_metadata_scraping", "from_metadata_init"},
     u \in Hrefs, a \in ArticleAnswers}

\* a block without an anchor
BlockBare == [anchor |-> FALSE, href |-> <<>>, title |-> <<>>, spans |-> BlockA.spans]

\* the blocks of the pages: read well, without an anchor, with a date that
\* names no month of the table, with no date at all
BlockKinds ==
  {BlockA, BlockB, BlockBare, BlockX(<<>>)} \cup {BlockX(spans) : spans \in UndatedSpans}

ListingPages ==
  {[h1 |-> h, sibling |-> IF h = "tag" THEN bs ELSE <<>>, wraps |-> ws] :
     h \in {"absent", "last", "text", "tag"},
     bs \in SeqsUpTo(BlockKinds, MaxParts),
     ws \in {<<>>, <<<<>>>>} \cup {<<<<>>, w>> : w \in SeqsUpTo(BlockKinds, MaxParts - 1)}}

ListingAnswers ==
  {[status |-> 200, page |-> p] : p \in ListingPages}
    \cup {[status |-> 404, page |-> NoListing], [status |-> 500, page |-> NoListing]}

NewsDate == strftime(Date(2020, 12, 21))

\* a site that answers the listing of the date so, and serves every article
SiteListing(answer) ==
  [listing |-> [d \in {NewsDate} |-> answer],
   article |-> [u \in ArticleUrls |-> FullArticle]]

ListingCalls ==
  {[fn |-> f, date |-> NewsDate, answer |-> a] :
     f \in {"parse_news", "parse_news_init"}, a \in ListingAnswers}

InitCalls ==
  /\ NoRun
  /\ call \in DateCalls \cup ArticleCalls \cup ListingCalls
  /\ site = IF call.fn \in {"standardise_date", "standardise_date_iso"}
            THEN [listing |-> <<>>, article |-> <<>>]
            ELSE IF call.fn \in {"parse_news", "parse_news_init"}
            THEN SiteListing(call.answer)
            ELSE SiteAnswering(call.answer)
  /\ result = None

\* the call is made, once
Called(fn, value) ==
  /\ call # None
  /\ call.fn = fn
  /\ result = None
  /\ result' = Some(value)
  /\ UNCHANGED <<entry, args, days, site, pc, dates, idx, data, corpus, error,
                 requests, call>>

CallStandardiseDate == Called("standardise_date", standardise_date(call.date))

CallStandardiseDateIso == Called("standardise_date_iso", standardise_date_iso(call.date))

CallFromMetadata == Called("from_metadata", from_metadata(call.metadata, site))

CallFromMetadataScraping ==
  Called("from_metadata_scraping", from_metadata_scraping(call.metadata, site))

CallFromMetadataInit ==
  Called("from_metadata_init", from_metadata_init(call.metadata, site))

CallParseNews == Called("parse_news", parse_news(call.date, site))

CallParseNewsInit == Called("parse_news_init", parse_news_init(call.date, site))

NextCalls ==
  \/ CallStandardiseDate
  \/ CallStandardiseDateIso
  \/ CallFromMetadata
  \/ CallFromMetadataScraping
  \/ CallFromMetadataInit
  \/ CallParseNews
  \/ CallParseNewsInit

SpecCalls == InitCalls /\ [][NextCalls]_vars

(***************************************************************************)
(* The functions called on their own: what is claimed of them              *)
(***************************************************************************)

IsCall(fns) == call # None /\ result # None /\ call.fn \in fns

FromMetadataCalls == {"from_metadata", "from_metadata_scraping", "from_metadata_init"}

\* the article page was fetched well and has no body container
NoBodyCall ==
  /\ IsCall(FromMetadataCalls)
  /\ call.answer.status = 200
  /\ call.answer.page.body = None

\* the related links of an article, and the publication time of a record, as
\* the variant called names them
RelatedLinks(article) ==
  IF call.fn = "from_metadata_init" THEN article.similar ELSE article.hrefs

PublishedOf(record) == IF call.fn = "from_metadata" THEN record.date ELSE record.time

\* the article has no text, tags or related links, and the title and the
\* publication time of the metadata
BareArticle(out) ==
  /\ out.kind = "return"
  /\ out.value.text = None
  /\ out.value.tags = None
  /\ RelatedLinks(out.value) = None
  /\ out.value.title = call.metadata.title
  /\ PublishedOf(out.value) = PublishedOf(call.metadata)

ParseNewsCalls == {"parse_news", "parse_news_init"}

\* the page has no listing section, or one that lists nothing
NothingListed(page) ==
  IF call.fn = "parse_news" THEN page.h1 # "tag" \/ page.sibling = <<>>
  ELSE Len(page.wraps) < 2 \/ page.wraps[2] = <<>>

\* C6: of a listing page fetched well, whose listing section is not there
\* or lists no article, listing extraction gives nothing and raises nothing.
C6_EmptyListingNeverRaises ==
  (IsCall(ParseNewsCalls) /\ call.answer.status = 200
     /\ NothingListed(call.answer.page)) =>
    result[1].out = Return(DataFrame(<<>>))

StandardiseCalls == {"standardise_date", "standardise_date_iso"}

\* what the call gave as a datetime: the ISO string "YYYY-MM-DDTHH:MM:SS" of
\* scraping.py read back
Timestamped(value) ==
  IF call.fn = "standardise_date" THEN value
  ELSE [year |-> Num4(value, 1), month |-> Num2(value, 6), day |-> Num2(value, 9),
        hour |-> Num2(value, 12), minute |-> Num2(value, 15)]

\* the call is on a date of the calendar written as the site writes it
ShapedCall ==
  /\ IsCall(StandardiseCalls)
  /\ call.what.form = "genitive"
  /\ call.what.day <= DaysInMonth(call.what.year, call.what.month)

\* the call is on a date of the site followed by the name of the next month
TwiceCall == IsCall(StandardiseCalls) /\ call.what.form = "twice"

\* of the two months named, the one the table has first, and the other
FirstNamed(what) == IF what.month = 12 THEN 1 ELSE what.month

OtherNamed(what) == IF what.month = 12 THEN 12 ELSE what.month + 1

\* C8: of "<day> <genitive month name> <year>, <HH:MM>" standardise_date
\* gives the timestamp of that day, year, hour and minute, in the month the
\* table has the name for; of two names in the string it takes the one the
\* table has first, whose name alone is then replaced: the other is left in
\* what strptime rejects.
C8_ShapedDateIsRead ==
  /\ ShapedCall =>
       /\ result[1].kind = "return"
       /\ Timestamped(result[1].value) =
            [year |-> call.what.year, month |-> call.what.month,
             day |-> call.what.day, hour |-> call.what.hour,
             minute |-> call.what.minute]
  /\ TwiceCall =>
       /\ result[1].kind = "raise"
       /\ Contains(months[OtherNamed(call.what)].ua, result[1].msg)
       /\ ~Contains(months[FirstNamed(call.what)].ua, result[1].msg)

\* "9 лютого 2020, 9:05" read by items.py
C8_Witness ==
  /\ ShapedCall
  /\ call.fn = "standardise_date"
  /\ call.what.month = 2
  /\ call.what.day = 9
  /\ call.what.hour = 9
  /\ ~call.what.pad

\* "31 грудня 2021, 23:59 січня": the name of January, first in the table, is
\* the one replaced
C8_WitnessTwice ==
  /\ TwiceCall
  /\ call.what.month = 12

\* none of the twelve names is in the string
Unnamed(date) == \A m \in 1..12 : ~Contains(months[m].ua, date)

\* the date of a listing block as from_tag reads it
DateOf(block) == Join(<<" ">>, block.spans)

\* the blocks a page lists for the variant called
ListedOn(page) ==
  IF call.fn = "parse_news" THEN (IF page.h1 = "tag" THEN page.sibling ELSE <<>>)
  ELSE IF Len(page.wraps) >= 2 THEN page.wraps[2]
  ELSE <<>>

\* the first block of the listing whose date has none of the names, every
\* block before it being one from_tag reads; 0 when there is no such block
FirstUnnamed(blocks) ==
  IF \E k \in 1..Len(blocks) :
       /\ Unnamed(DateOf(blocks[k]))
       /\ \A j \in 1..k : blocks[j].anchor
       /\ \A j \in 1..(k - 1) : ~Unnamed(DateOf(blocks[j]))
  THEN CHOOSE k \in 1..Len(blocks) :
         /\ Unnamed(DateOf(blocks[k]))
         /\ \A j \in 1..(k - 1) : ~Unnamed(DateOf(blocks[j]))
  ELSE 0

NoMatchFor(date) == Raise("ValueError", MSG_NO_MATCH \o date)

\* the listing the run fetched with request k
ListedFor(k) ==
  IF requests[k].status = 200 /\ site.listing[requests[k].target].page.h1 = "tag"
  THEN site.listing[requests[k].target].page.sibling
  ELSE <<>>

\* C7: of a string with none of the twelve genitive month names
\* standardise_date gives no value: it raises a ValueError whose message
\* ends with the string.  Listing extraction raises that error when a block
\* has such a date, before any article is requested, and a run that meets
\* such a block ends failed with that error, nothing saved.
C7_UnnamedMonthRaises ==
  /\ (IsCall(StandardiseCalls) /\ Unnamed(call.date)) =>
       result[1] = NoMatchFor(call.date)
  /\ (IsCall(ParseNewsCalls) /\ call.answer.status = 200
        /\ FirstUnnamed(ListedOn(call.answer.page)) # 0) =>
       /\ result[1].out =
            NoMatchFor(DateOf(ListedOn(call.answer.page)[
                                FirstUnnamed(ListedOn(call.answer.page))]))
       /\ Len(result[1].requests) = 1
  /\ \A k \in Listings :
       (entry # "call" /\ FirstUnnamed(ListedFor(k)) # 0) =>
         /\ k = Len(requests)
         /\ pc = "failed"
         /\ error = Some(NoMatchFor(DateOf(ListedFor(k)[FirstUnnamed(ListedFor(k))])))
         /\ corpus = None

\* standardise_date called on "21 грудень 2020, 14:30"
C7_Witness ==
  /\ IsCall({"standardise_date"})
  /\ call.what.form = "nominative"
  /\ Unnamed(call.date)

\* a run failed on a block dated "21 December 2020, 14:30", the block before
\* it read
C7_WitnessRun ==
  /\ pc = "failed"
  /\ requests # <<>>
  /\ requests[Len(requests)].kind = "listing"
  /\ FirstUnnamed(ListedFor(Len(requests))) = 2
  /\ Contains(months[12].en, error[1].msg)

\* the functions called on their own, and the runs
InitAll == Init \/ InitCalls

NextAll == Next \/ NextCalls

SpecAll == InitAll /\ [][NextAll]_vars

\* the article page was fetched well and has the body container
BodyCall ==
  /\ IsCall(FromMetadataCalls)
  /\ call.answer.status = 200
  /\ call.answer.page.body # None

\* the paragraphs of the container of the call
ParasOfCall == call.answer.page.body[1].paras

HasMarker(p) == Contains(MARKER, p.text)

LinksOf(p) == p.links

\* the hrefs of the links of the paragraphs that hold the marker, in document
\* order
MarkedLinks(paras) == Flatten(Map(LinksOf, SelectSeq(paras, HasMarker)))

\* the links of the container are those of its marker paragraphs, which are
\* paths on the site
OnlyMarkedLinks(paras) ==
  /\ MarkedLinks(paras) # <<>>
  /\ \A k \in 1..Len(paras) : ~HasMarker(paras[k]) => paras[k].links = <<>>
  /\ \A k \in 1..Len(MarkedLinks(paras)) : MarkedLinks(paras)[k][1] = "/"

\* C12: of a container whose marker paragraphs link to paths on the site, such
\* as /uk/posts/other, the related links of the article are those hrefs, in
\* order, and not absent.
C12_RelativeLinksAreRelated ==
  (BodyCall /\ OnlyMarkedLinks(ParasOfCall)) =>
    /\ result[1].out.kind = "return"
    /\ RelatedLinks(result[1].out.value) = Some(MarkedLinks(ParasOfCall))

NoMarker(p) == ~HasMarker(p)

\* the paragraphs of the container that do not hold the marker, in document
\* order
Unmarked(paras) == SelectSeq(paras, NoMarker)

RECURSIVE PlaceIn(_, _)
\* where the k-th of the paragraphs starts in their texts set one after the
\* other with one character between
PlaceIn(paras, k) ==
  IF k = 1 THEN 1 ELSE PlaceIn(paras, k - 1) + Len(paras[k - 1].text) + 1

\* text is the texts of the paragraphs, in their order, a single space between
\* two of them and nothing else
SpacedTexts(text, paras) ==
  /\ Len(text) = IF paras = <<>> THEN 0 ELSE PlaceIn(paras, Len(paras) + 1) - 2
  /\ \A k \in 1..Len(paras) :
       /\ OccursAt(paras[k].text, text, PlaceIn(paras, k))
       /\ k > 1 => text[PlaceIn(paras, k) - 1] = " "

\* C13: with the body container there, the text of the article is a string:
\* the texts of the paragraphs without the marker, in document order, joined
\* by single spaces (empty when there is none), and nothing of a paragraph
\* with the marker.
C13_TextIsUnmarkedParagraphs ==
  BodyCall =>
    /\ result[1].out.kind = "return"
    /\ result[1].out.value.text # None
    /\ SpacedTexts(result[1].out.value.text[1], Unmarked(ParasOfCall))

\* items.py on a container whose first paragraph has the marker and whose
\* second has not
C13_Witness ==
  /\ BodyCall
  /\ call.fn = "from_metadata"
  /\ Len(ParasOfCall) = 2
  /\ HasMarker(ParasOfCall[1])
  /\ NoMarker(ParasOfCall[2])

\* items.py on a container with no paragraph but one with the marker: the
\* text is the empty string
C13_WitnessEmpty ==
  /\ BodyCall
  /\ call.fn = "from_metadata"
  /\ Len(ParasOfCall) = 1
  /\ HasMarker(ParasOfCall[1])
  /\ result[1].out.value.text = Some(<<>>)

\* C14: the related links of an article from_metadata gives are absent or a
\* sequence that is not empty.
C14_RelatedLinksNeverEmpty ==
  (IsCall(FromMetadataCalls) /\ result[1].out.kind = "return") =>
    \/ RelatedLinks(result[1].out.value) = None
    \/ Len(RelatedLinks(result[1].out.value)[1]) >= 1

\* a container without any link: the related links are absent
C14_Witness ==
  /\ BodyCall
  /\ call.fn = "from_metadata"
  /\ ParasOfCall # <<>>
  /\ \A k \in 1..Len(ParasOfCall) : ParasOfCall[k].links = <<>>
  /\ RelatedLinks(result[1].out.value) = None

\* a container with a link to a post by its full address: the related links
\* hold it
C14_WitnessLinked ==
  /\ BodyCall
  /\ call.fn = "from_metadata"
  /\ RelatedLinks(result[1].out.value) = Some(<<WEBSITE \o PostPath(<<"o", "i", "l">>)>>)

\* the tags block of the container of the call: None, or its anchors
TagsOfCall == call.answer.page.body[1].tags

TextOf(anchor) == anchor.text

\* the texts the tags of an article hold, in their order: the list of items.py
\* itself, the values of the dict of scraping.py and __init__.py
TagValues(tags) == IF call.fn = "from_metadata" THEN tags[1] ELSE Map(TextOf, tags[1])

\* C15: with the body container there, from_metadata raises nothing for the
\* tags; they are absent when, and only when, the container has no tags
\* block, and else hold the texts of the anchors of the block, in order, one
\* for each anchor.
C15_TagsAreAnchorTexts ==
  BodyCall =>
    /\ result[1].out.kind = "return"
    /\ result[1].out.value.tags = None <=> TagsOfCall = None
    /\ TagsOfCall # None =>
         TagValues(result[1].out.value.tags) = Map(TextOf, TagsOfCall[1])

\* the url has a scheme, http or https
IsAbsolute(url) ==
  \/ OccursAt(<<"h", "t", "t", "p", ":", "/", "/">>, url, 1)
  \/ OccursAt(<<"h", "t", "t", "p", "s", ":", "/", "/">>, url, 1)

\* the url on the site at https://ua-energy.org
OnSite(url) ==
  IF IsAbsolute(url) THEN url
  ELSE IF url[1] = "/" THEN
    <<"h", "t", "t", "p", "s", ":", "/", "/", "u", "a", "-", "e", "n", "e", "r",
      "g", "y", ".", "o", "r", "g">> \o url
  ELSE
    <<"h", "t", "t", "p", "s", ":", "/", "/", "u", "a", "-", "e", "n", "e", "r",
      "g", "y", ".", "o", "r", "g", "/">> \o url

\* C16: the URL from_metadata requests, and stores in the article it gives, is
\* the url of the metadata itself when that has the scheme http or https, and
\* else that url resolved against https://ua-energy.org.
C16_UrlIsAbsolute ==
  IsCall(FromMetadataCalls) =>
    /\ result[1].requests # <<>>
    /\ result[1].requests[1].target = OnSite(call.metadata.url)
    /\ result[1].out.kind = "return" =>
         result[1].out.value.url = OnSite(call.metadata.url)

====
